---- MODULE Spec2Model ----
(***************************************************************************)
(* Model of macOS/include/byteswap/byteswap.h (the bswap_16 / bswap_32 /   *)
(* bswap_64 compatibility header) and of macOS/include/byteswap/test.c     *)
(* (its test program).                                                     *)
(*                                                                         *)
(* A C unsigned integer of width w is a bit vector: a function from        *)
(* 0..w-1 (bit 0 is the least significant) to {0, 1}.  The C operators     *)
(* >>, <<, & and | and the integer conversions are operators on such       *)
(* vectors, so that the 32- and 64-bit arithmetic is exact.                *)
(***************************************************************************)
EXTENDS Integers, Sequences, FiniteSets, TLC

VARIABLES
    width,       \* SpecSwap: width of the function under study (16, 32, 64)
    x,           \* SpecSwap: the input word
    y,           \* SpecSwap: the current word (x after n applications)
    n,           \* SpecSwap: number of applications of the swap so far
    apple,       \* build: __APPLE__ is defined
    hasInclude,  \* build: __has_include(<byteswap.h>) is true
    gnuc,        \* build: defined(__GNUC__) || defined(__clang__)
    ext,         \* build: what the delegated-to implementation returns
    strategy,    \* which branch of the header's conditional chain was taken
    pc,          \* position in the build / in main()
    passed,      \* main's local variable `passed'
    out,         \* lines written to standard output
    status       \* exit status of main

vars == <<width, x, y, n, apple, hasInclude, gnuc, ext, strategy, pc,
          passed, out, status>>

swapVars == <<width, x, y, n>>
buildVars == <<apple, hasInclude, gnuc, ext, strategy, pc, passed, out, status>>

----------------------------------------------------------------------------
(* Bounds of the model *)

\* 32-bit inputs are the words whose bytes are among the first NumBytes32
\* entries of ByteSamples (plus the words the test and the spec name).
NumBytes32 == 5

\* 64-bit inputs are the words that mix two of the first NumBytes64 entries
\* of ByteSamples (plus the word the test names).
NumBytes64 == 4

\* Each swap is applied at most MaxApply times to an input.
MaxApply == 2

----------------------------------------------------------------------------
(* C integers as bit vectors *)

\* Width of C's int, to which a uint16_t operand is promoted.
IntWidth == 32

Bits == {0, 1}

Word(w) == [0..(w - 1) -> Bits]

RECURSIVE Pow2(_)
Pow2(k) == IF k = 0 THEN 1 ELSE 2 * Pow2(k - 1)

\* An integer literal, written as its bytes, most significant first
\* (0x00ff0000u is Lit(<<0, 255, 0, 0>>)).
Lit(bytes) ==
    [i \in 0..(8 * Len(bytes) - 1) |->
        (bytes[Len(bytes) - (i \div 8)] \div Pow2(i % 8)) % 2]

\* v >> k on an unsigned (or non-negative) operand: zeros come in at the top.
Shr(v, k) == [i \in DOMAIN v |-> IF (i + k) \in DOMAIN v THEN v[i + k] ELSE 0]

\* v << k: zeros come in at the bottom, bits shifted past the width are lost.
Shl(v, k) == [i \in DOMAIN v |-> IF (i - k) \in DOMAIN v THEN v[i - k] ELSE 0]

\* a & b
And(a, b) == [i \in DOMAIN a |-> IF a[i] = 1 /\ b[i] = 1 THEN 1 ELSE 0]

\* a | b
Or(a, b) == [i \in DOMAIN a |-> IF a[i] = 1 \/ b[i] = 1 THEN 1 ELSE 0]

\* Conversion of a non-negative value to an integer type of width w:
\* zero extension when w is larger, reduction modulo 2^w when smaller.
Convert(v, w) == [i \in 0..(w - 1) |-> IF i \in DOMAIN v THEN v[i] ELSE 0]

----------------------------------------------------------------------------
(* The manual implementations, byteswap.h lines 42-62 *)

\* The expression of bswap_16, computed in int after integer promotion.
bswap_16_expr(v) ==
    Or(Shr(Convert(v, IntWidth), 8), Shl(Convert(v, IntWidth), 8))

\* Mutant: & written for |.
bswap_16_andForOr(v) ==
    Convert(And(Shr(Convert(v, IntWidth), 8), Shl(Convert(v, IntWidth), 8)), 16)

\* Mutant: the int expression returned without the conversion to uint16_t.
bswap_16_noConvert(v) == bswap_16_expr(v)

\* return converts the int expression to uint16_t.
bswap_16(v) == Convert(bswap_16_expr(v), 16)

\* Mutant: the second byte shifted by 16 instead of 8.
bswap_32_wrongShift(v) ==
    Or(Or(Or(Shr(And(v, Lit(<<255, 0, 0, 0>>)), 24),
             Shr(And(v, Lit(<<0, 255, 0, 0>>)), 16)),
          Shl(And(v, Lit(<<0, 0, 255, 0>>)), 8)),
       Shl(And(v, Lit(<<0, 0, 0, 255>>)), 24))

\* Mutant: the last term, (x & 0x000000ffu) << 24, left out.
bswap_32_dropTerm(v) ==
    Or(Or(Shr(And(v, Lit(<<255, 0, 0, 0>>)), 24),
          Shr(And(v, Lit(<<0, 255, 0, 0>>)), 8)),
       Shl(And(v, Lit(<<0, 0, 255, 0>>)), 8))

\* Mutant: the mask 0x00ff0000u written 0x00f00000u.
bswap_32_wrongMask(v) ==
    Or(Or(Or(Shr(And(v, Lit(<<255, 0, 0, 0>>)), 24),
             Shr(And(v, Lit(<<0, 240, 0, 0>>)), 8)),
          Shl(And(v, Lit(<<0, 0, 255, 0>>)), 8)),
       Shl(And(v, Lit(<<0, 0, 0, 255>>)), 24))

bswap_32(v) ==
    Or(Or(Or(Shr(And(v, Lit(<<255, 0, 0, 0>>)), 24),
             Shr(And(v, Lit(<<0, 255, 0, 0>>)), 8)),
          Shl(And(v, Lit(<<0, 0, 255, 0>>)), 8)),
       Shl(And(v, Lit(<<0, 0, 0, 255>>)), 24))

\* Mutant: the shifts 40 and 24 of the second and third terms exchanged.
bswap_64_wrongShift(v) ==
    Or(Or(Or(Or(Or(Or(Or(
        Shr(And(v, Lit(<<255, 0, 0, 0, 0, 0, 0, 0>>)), 56),
        Shr(And(v, Lit(<<0, 255, 0, 0, 0, 0, 0, 0>>)), 24)),
        Shr(And(v, Lit(<<0, 0, 255, 0, 0, 0, 0, 0>>)), 40)),
        Shr(And(v, Lit(<<0, 0, 0, 255, 0, 0, 0, 0>>)), 8)),
        Shl(And(v, Lit(<<0, 0, 0, 0, 255, 0, 0, 0>>)), 8)),
        Shl(And(v, Lit(<<0, 0, 0, 0, 0, 255, 0, 0>>)), 24)),
        Shl(And(v, Lit(<<0, 0, 0, 0, 0, 0, 255, 0>>)), 40)),
        Shl(And(v, Lit(<<0, 0, 0, 0, 0, 0, 0, 255>>)), 56))

bswap_64(v) ==
    Or(Or(Or(Or(Or(Or(Or(
        Shr(And(v, Lit(<<255, 0, 0, 0, 0, 0, 0, 0>>)), 56),
        Shr(And(v, Lit(<<0, 255, 0, 0, 0, 0, 0, 0>>)), 40)),
        Shr(And(v, Lit(<<0, 0, 255, 0, 0, 0, 0, 0>>)), 24)),
        Shr(And(v, Lit(<<0, 0, 0, 255, 0, 0, 0, 0>>)), 8)),
        Shl(And(v, Lit(<<0, 0, 0, 0, 255, 0, 0, 0>>)), 8)),
        Shl(And(v, Lit(<<0, 0, 0, 0, 0, 255, 0, 0>>)), 24)),
        Shl(And(v, Lit(<<0, 0, 0, 0, 0, 0, 255, 0>>)), 40)),
        Shl(And(v, Lit(<<0, 0, 0, 0, 0, 0, 0, 255>>)), 56))

----------------------------------------------------------------------------
(* Inputs of the swaps *)

\* Byte values the 32- and 64-bit inputs are built from:
\* 0x00, 0xFF, 0x80, 0x01, 0x12, 0x34, 0x56, 0x78.
ByteSamples == <<0, 255, 128, 1, 18, 52, 86, 120>>

Samples(k) == {ByteSamples[i] : i \in 1..k}

\* Every uint16_t value.
Inputs16 == Word(16)

Inputs32 ==
    {Lit(b) : b \in [1..4 -> Samples(NumBytes32)]}
        \cup {Lit(<<18, 52, 86, 120>>), Lit(<<255, 255, 255, 255>>)}

\* The 64-bit inputs: every placement of one byte value f in the positions
\* S of a word otherwise filled with a byte value b, and the test's word.
Inputs64 ==
    {Lit([i \in 1..8 |-> IF i \in S THEN f ELSE b]) :
        S \in SUBSET (1..8), f \in Samples(NumBytes64), b \in Samples(NumBytes64)}
        \cup {Lit(<<18, 52, 86, 120, 154, 188, 222, 240>>)}

Inputs(w) == IF w = 16 THEN Inputs16 ELSE IF w = 32 THEN Inputs32 ELSE Inputs64

----------------------------------------------------------------------------
(* SpecSwap: the manual implementations applied to every input *)

\* The part of the state that belongs to the build and to main() is idle.
BuildIdle ==
    /\ apple = FALSE
    /\ hasInclude = FALSE
    /\ gnuc = FALSE
    /\ ext = <<>>
    /\ strategy = "manual"
    /\ pc = "swap"
    /\ passed = 1
    /\ out = <<>>
    /\ status = 0

InitSwap ==
    /\ width \in {16, 32, 64}
    /\ x \in Inputs(width)
    /\ y = x
    /\ n = 0
    /\ BuildIdle

Swap16 ==
    /\ pc = "swap" /\ width = 16 /\ n < MaxApply
    /\ y' = bswap_16(y)
    /\ n' = n + 1
    /\ UNCHANGED <<width, x>>
    /\ UNCHANGED buildVars

Swap32 ==
    /\ pc = "swap" /\ width = 32 /\ n < MaxApply
    /\ y' = bswap_32(y)
    /\ n' = n + 1
    /\ UNCHANGED <<width, x>>
    /\ UNCHANGED buildVars

Swap64 ==
    /\ pc = "swap" /\ width = 64 /\ n < MaxApply
    /\ y' = bswap_64(y)
    /\ n' = n + 1
    /\ UNCHANGED <<width, x>>
    /\ UNCHANGED buildVars

NextSwap == Swap16 \/ Swap32 \/ Swap64

SpecSwap == InitSwap /\ [][NextSwap]_vars

----------------------------------------------------------------------------
(* Properties of the manual implementations, checked under SpecSwap *)

\* The number the bits i, i+1, ... of v stand for, bit i counting 1.
RECURSIVE NatFrom(_, _)
NatFrom(v, i) == IF i \in DOMAIN v THEN v[i] + 2 * NatFrom(v, i + 1) ELSE 0

\* The number a bit vector of at most 30 bits stands for.
ToNat(v) == NatFrom(v, 0)

\* Byte i (0 is the least significant) of v, as its eight bits.
ByteOf(v, i) == [b \in 0..7 |-> v[8 * i + b]]

\* C1: for every 16-bit x, bswap_16(x) is ((x>>8)&0xFF) | ((x<<8)&0xFF00):
\* the low byte of the result is the high byte of x and the high byte of the
\* result is the low byte of x.
C1_Swap16Formula ==
    (width = 16 /\ n = 1) =>
        LET a == ToNat(x)
            r == ToNat(y)
        IN  /\ r = ((a \div 256) % 256) + (((a * 256) \div 256) % 256) * 256
            /\ r % 256 = a \div 256
            /\ r \div 256 = a % 256

\* C1 witness: bswap_16 has been applied to 0xAB01, whose bytes differ.
C1_Witness == width = 16 /\ n = 1 /\ x = Lit(<<171, 1>>) /\ y = Lit(<<1, 171>>)

\* C2: for every 32-bit x, byte i of bswap_32(x) is byte 3-i of x, for each
\* i in 0..3, and the result has no other bits.
C2_Swap32Reverses ==
    (width = 32 /\ n = 1) =>
        /\ DOMAIN y = 0..31
        /\ \A i \in 0..3 : ByteOf(y, i) = ByteOf(x, 3 - i)

\* C2 witness: bswap_32 has been applied to 0x12345678, four different bytes.
C2_Witness ==
    width = 32 /\ n = 1 /\ x = Lit(<<18, 52, 86, 120>>) /\ y = Lit(<<120, 86, 52, 18>>)

\* C3: for every 64-bit x, byte i of bswap_64(x) is byte 7-i of x, for each
\* i in 0..7, and the result has no other bits.
C3_Swap64Reverses ==
    (width = 64 /\ n = 1) =>
        /\ DOMAIN y = 0..63
        /\ \A i \in 0..7 : ByteOf(y, i) = ByteOf(x, 7 - i)

\* C3 witness: bswap_64 has been applied to 0x123456789ABCDEF0, eight
\* different bytes.
C3_Witness ==
    /\ width = 64 /\ n = 1
    /\ x = Lit(<<18, 52, 86, 120, 154, 188, 222, 240>>)
    /\ y = Lit(<<240, 222, 188, 154, 120, 86, 52, 18>>)

\* C4: each swap is an involution on its own width: applying it twice gives
\* the input back, for the 16-, the 32- and the 64-bit swap.
C4_Involution == (n = 2) => (y = x)

\* C4 witness: a 64-bit word that its swap changes has been swapped twice.
C4_Witness == width = 64 /\ n = 2 /\ bswap_64(x) # x

\* C5: the three test vectors: bswap_16(0x1234) = 0x3412,
\* bswap_32(0x12345678) = 0x78563412 and
\* bswap_64(0x123456789ABCDEF0) = 0xF0DEBC9A78563412.
C5_TestVectors ==
    (n = 1) =>
        /\ (width = 16 /\ x = Lit(<<18, 52>>)) => y = Lit(<<52, 18>>)
        /\ (width = 32 /\ x = Lit(<<18, 52, 86, 120>>)) => y = Lit(<<120, 86, 52, 18>>)
        /\ (width = 64 /\ x = Lit(<<18, 52, 86, 120, 154, 188, 222, 240>>))
               => y = Lit(<<240, 222, 188, 154, 120, 86, 52, 18>>)

\* C5 witness: bswap_16 has been applied to the 16-bit test vector 0x1234.
C5_Witness == width = 16 /\ n = 1 /\ x = Lit(<<18, 52>>)

\* Every byte of v is the same.
AllBytesEqual(v, w) == \A i \in 0..(w \div 8 - 1) : ByteOf(v, i) = ByteOf(v, 0)

\* C6: the fixed points: bswap_16(0x0000) = 0x0000 and
\* bswap_32(0xFFFFFFFF) = 0xFFFFFFFF; a word whose bytes are all equal is
\* returned unchanged.
C6_FixedPoints ==
    (n = 1) =>
        /\ (width = 16 /\ x = Lit(<<0, 0>>)) => y = Lit(<<0, 0>>)
        /\ (width = 32 /\ x = Lit(<<255, 255, 255, 255>>)) => y = Lit(<<255, 255, 255, 255>>)
        /\ AllBytesEqual(x, width) => y = x

\* C6 witness: bswap_32 has been applied to 0xFFFFFFFF.
C6_Witness == width = 32 /\ n = 1 /\ x = Lit(<<255, 255, 255, 255>>)

\* v is an unsigned integer of width w.
IsWord(v, w) == DOMAIN v = 0..(w - 1) /\ \A i \in DOMAIN v : v[i] \in Bits

\* The manual swap of width w applied to v.
ManualSwap(w, v) ==
    IF w = 16 THEN bswap_16(v) ELSE IF w = 32 THEN bswap_32(v) ELSE bswap_64(v)

\* C10: each manual swap is total and keeps its width: every input has a
\* result, the result is a word of the input's width, and bswap_16 returns
\* the value of (x >> 8) | (x << 8), which is computed in int and can exceed
\* 16 bits, modulo 2^16.
C10_WidthPreserving ==
    /\ (n = 0) => IsWord(ManualSwap(width, x), width)
    /\ (n >= 1) => IsWord(y, width)
    /\ (width = 16 /\ n = 1) =>
           ToNat(y) = ((ToNat(x) \div 256) + (ToNat(x) * 256)) % 65536

\* C10 witness: bswap_16 has been applied to 0xFFFF, for which
\* (x >> 8) | (x << 8) is 0xFFFFFF, more than 16 bits.
C10_Witness ==
    /\ width = 16 /\ n = 1 /\ x = Lit(<<255, 255>>)
    /\ ToNat(bswap_16_expr(x)) = 16777215
    /\ y = Lit(<<255, 255>>)

----------------------------------------------------------------------------
(* The conditional chain of byteswap.h, lines 18-66 *)

\* Mutant: the compiler is tested before the system header.
Select_builtinFirst(a, h, g) ==
    IF a THEN "native"
    ELSE IF g THEN "builtin"
    ELSE IF h THEN "system"
    ELSE "manual"

\* Mutant: the last branch is an #error instead of the manual functions.
Select_errorLast(a, h, g) ==
    IF a THEN "native"
    ELSE IF h THEN "system"
    ELSE IF g THEN "builtin"
    ELSE "error"

\* The branch the preprocessor takes.
Select(a, h, g) ==
    IF a THEN "native"            \* #ifdef __APPLE__: OSSwapInt16/32/64
    ELSE IF h THEN "system"       \* #if __has_include(<byteswap.h>): #include_next
    ELSE IF g THEN "builtin"      \* __GNUC__ or __clang__: __builtin_bswap16/32/64
    ELSE "manual"                 \* the static inline functions

\* What a delegated-to implementation (OSByteOrder.h, the system's
\* byteswap.h, the compiler builtins) returns for the test program's three
\* arguments is not decided by this repository: the swapped word, or the
\* argument unchanged.
ExtResults ==
    [r16 : {Lit(<<52, 18>>), Lit(<<18, 52>>)},
     r32 : {Lit(<<120, 86, 52, 18>>), Lit(<<18, 52, 86, 120>>)},
     r64 : {Lit(<<240, 222, 188, 154, 120, 86, 52, 18>>),
            Lit(<<18, 52, 86, 120, 154, 188, 222, 240>>)}]

\* bswap_16(a), bswap_32(a), bswap_64(a) as the selected branch defines them.
Call16(a) == IF strategy = "manual" THEN bswap_16(Convert(a, 16)) ELSE ext.r16
Call32(a) == IF strategy = "manual" THEN bswap_32(Convert(a, 32)) ELSE ext.r32
Call64(a) == IF strategy = "manual" THEN bswap_64(Convert(a, 64)) ELSE ext.r64

----------------------------------------------------------------------------
(* Spec: test.c is compiled against byteswap.h and run *)

\* The part of the state that belongs to SpecSwap is idle.
SwapIdle == width = 0 /\ x = <<>> /\ y = <<>> /\ n = 0

Init ==
    /\ apple \in BOOLEAN
    /\ hasInclude \in BOOLEAN
    /\ gnuc \in BOOLEAN
    /\ ext \in ExtResults
    /\ strategy = "none"
    /\ pc = "include"
    /\ passed = -1                \* not declared yet
    /\ out = <<>>
    /\ status = -1                \* main has not returned
    /\ SwapIdle

\* test.c line 10: #include "byteswap.h"
Include ==
    /\ pc = "include"
    /\ strategy' = Select(apple, hasInclude, gnuc)
    /\ pc' = "print"
    /\ UNCHANGED <<apple, hasInclude, gnuc, ext, passed, out, status>>
    /\ UNCHANGED swapVars

\* test.c lines 13-23: the three values and their swaps are printed.
PrintValues ==
    /\ pc = "print"
    /\ out' = out \o <<
           <<"Byte swap test:">>,
           <<"16-bit", Lit(<<18, 52>>), Call16(Lit(<<18, 52>>))>>,
           <<"32-bit", Lit(<<18, 52, 86, 120>>), Call32(Lit(<<18, 52, 86, 120>>))>>,
           <<"64-bit", Lit(<<18, 52, 86, 120, 154, 188, 222, 240>>),
             Call64(Lit(<<18, 52, 86, 120, 154, 188, 222, 240>>))>> >>
    /\ pc' = "declare"
    /\ UNCHANGED <<apple, hasInclude, gnuc, ext, strategy, passed, status>>
    /\ UNCHANGED swapVars

\* test.c line 26: int passed = 1;
Declare ==
    /\ pc = "declare"
    /\ passed' = 1
    /\ pc' = "check16"
    /\ UNCHANGED <<apple, hasInclude, gnuc, ext, strategy, out, status>>
    /\ UNCHANGED swapVars

\* test.c line 27: if (bswap_16(0x1234) != 0x3412) passed = 0;
\* both sides are compared as int.
Check16 ==
    /\ pc = "check16"
    /\ passed' = IF Convert(Call16(Lit(<<0, 0, 18, 52>>)), IntWidth) # Lit(<<0, 0, 52, 18>>)
                 THEN 0 ELSE passed
    /\ pc' = "check32"
    /\ UNCHANGED <<apple, hasInclude, gnuc, ext, strategy, out, status>>
    /\ UNCHANGED swapVars

\* Mutant: passed = (bswap_32(0x12345678) == 0x78563412);
Check32_assigns ==
    /\ pc = "check32"
    /\ passed' = IF Call32(Lit(<<18, 52, 86, 120>>)) # Lit(<<120, 86, 52, 18>>)
                 THEN 0 ELSE 1
    /\ pc' = "check64"
    /\ UNCHANGED <<apple, hasInclude, gnuc, ext, strategy, out, status>>
    /\ UNCHANGED swapVars

\* test.c line 28: if (bswap_32(0x12345678) != 0x78563412) passed = 0;
Check32 ==
    /\ pc = "check32"
    /\ passed' = IF Call32(Lit(<<18, 52, 86, 120>>)) # Lit(<<120, 86, 52, 18>>)
                 THEN 0 ELSE passed
    /\ pc' = "check64"
    /\ UNCHANGED <<apple, hasInclude, gnuc, ext, strategy, out, status>>
    /\ UNCHANGED swapVars

\* test.c line 29:
\* if (bswap_64(0x123456789ABCDEF0ULL) != 0xF0DEBC9A78563412ULL) passed = 0;
Check64 ==
    /\ pc = "check64"
    /\ passed' = IF Call64(Lit(<<18, 52, 86, 120, 154, 188, 222, 240>>))
                        # Lit(<<240, 222, 188, 154, 120, 86, 52, 18>>)
                 THEN 0 ELSE passed
    /\ pc' = "report"
    /\ UNCHANGED <<apple, hasInclude, gnuc, ext, strategy, out, status>>
    /\ UNCHANGED swapVars

\* test.c line 31: printf("\nTest %s!\n", passed ? "PASSED" : "FAILED");
Report ==
    /\ pc = "report"
    /\ out' = Append(out, IF passed # 0 THEN <<"Test PASSED!">> ELSE <<"Test FAILED!">>)
    /\ pc' = "return"
    /\ UNCHANGED <<apple, hasInclude, gnuc, ext, strategy, passed, status>>
    /\ UNCHANGED swapVars

\* test.c line 33: return passed ? 0 : 1;
Return ==
    /\ pc = "return"
    /\ status' = IF passed # 0 THEN 0 ELSE 1
    /\ pc' = "exited"
    /\ UNCHANGED <<apple, hasInclude, gnuc, ext, strategy, passed, out>>
    /\ UNCHANGED swapVars

Next ==
    \/ Include
    \/ PrintValues
    \/ Declare
    \/ Check16
    \/ Check32
    \/ Check64
    \/ Report
    \/ Return

Spec == Init /\ [][Next]_vars

----------------------------------------------------------------------------
(* Properties of the build and of the test program, checked under Spec *)

\* Whether each of the three comparisons of test.c finds the expected word.
Match16 == Call16(Lit(<<18, 52>>)) = Lit(<<52, 18>>)
Match32 == Call32(Lit(<<18, 52, 86, 120>>)) = Lit(<<120, 86, 52, 18>>)
Match64 ==
    Call64(Lit(<<18, 52, 86, 120, 154, 188, 222, 240>>))
        = Lit(<<240, 222, 188, 154, 120, 86, 52, 18>>)

\* The verdict of a finished run.
Verdict ==
    (pc = "exited") =>
        /\ (status = 0 /\ out[Len(out)] = <<"Test PASSED!">>)
               <=> (Match16 /\ Match32 /\ Match64)
        /\ ~(Match16 /\ Match32 /\ Match64)
               => (passed = 0 /\ out[Len(out)] = <<"Test FAILED!">> /\ status = 1)

\* C7: the test program exits with status 0 and reports PASSED if and only
\* if all three comparisons match; if any of them mismatches, whatever the
\* later comparisons find, the flag ends at 0, FAILED is reported and the
\* exit status is 1; the flag is never set back to 1 after a mismatch.
C7_HarnessVerdict == []Verdict /\ [][passed = 0 => passed' = 0]_vars

\* C7 witness: a run has ended in which the 16-bit comparison mismatched and
\* the two later ones matched.
C7_Witness ==
    /\ pc = "exited" /\ ~Match16 /\ Match32 /\ Match64
    /\ passed = 0 /\ status = 1

\* The strategies in priority order, and the ones the build offers.
Priority == <<"native", "system", "builtin", "manual">>

Rank(s) == CHOOSE i \in 1..Len(Priority) : Priority[i] = s

Available ==
    {s \in {"native"} : apple} \cup {s \in {"system"} : hasInclude}
        \cup {s \in {"builtin"} : gnuc} \cup {"manual"}

\* C8: for every combination of the three compile-time conditions exactly
\* one strategy is selected, the first applicable one in the order native
\* API, system header, compiler builtins, shift/mask arithmetic.
C8_FirstApplicable ==
    (pc # "include") =>
        /\ Cardinality({i \in 1..Len(Priority) : Priority[i] = strategy}) = 1
        /\ strategy \in Available
        /\ \A s \in Available : Rank(strategy) <= Rank(s)

\* C8 witness: the system header is selected although the compiler builtins
\* are available too.
C8_Witness ==
    pc # "include" /\ ~apple /\ hasInclude /\ gnuc /\ strategy = "system"

====
